---------------------------- MODULE Spec2Model ----------------------------
(***************************************************************************)
(* Start-up of the three Python agent examples of the repository:          *)
(*                                                                         *)
(*   "langgraph"   python/main.py + python/agent.py                        *)
(*   "deepagents"  python/langchain_deepagents/main.py + agent.py          *)
(*   "adk"         python/adk.py                                           *)
(*                                                                         *)
(* Each example is module-level code: one statement after the other, any   *)
(* exception propagating to the interpreter and ending the process.  One   *)
(* process runs at a time; Restart launches the next one.  Python strings  *)
(* whose characters the code inspects (the values of environment           *)
(* variables) are sequences of one-character strings; a Python name that   *)
(* is not bound yet, and an environment variable that is not set, are the  *)
(* empty sequence << >>, a bound one is << value >>.                       *)
(***************************************************************************)
EXTENDS Integers, Sequences, FiniteSets, TLC

\* Number of process launches in one behaviour.
MaxRuns == 2

\* Number of writes to os.environ by the host of the process in one behaviour.
MaxEnvWrites == 1

VARIABLES
    example,      \* which example this process runs
    runAsMain,    \* __name__ == "__main__" (the file is run as a script)
    environ,      \* os.environ of the process: PORT and LANGGRAPH_FAST_API
    dotenv,       \* the variables the .env file defines
    pc,           \* the next module-level statement, or "loaded"/"serving"/"crashed"
    failedAt,     \* the statement that raised, when pc = "crashed"
    flagSeen,     \* what os.environ.get("LANGGRAPH_FAST_API") found (history)
    flagReads,    \* how many times the flag was looked up
    is_fast_api,  \* agent.py's module global
    flagAtBuild,  \* os.environ's flag when create_agent ran (history)
    graph,        \* the agent module's global graph: the arguments of create_agent
    builds,       \* how many times an agent was constructed (attempts included)
    app,          \* the FastAPI application: << >> or << [title, middleware] >>
    agent,        \* the adapter object wrapping the graph
    routes,       \* the agent routes registered on app
    portSeen,     \* what os.getenv("PORT") found in main() (history)
    server,       \* the arguments of uvicorn.run
    prev,         \* the previous process's example, flagSeen and graph (history)
    runs,         \* processes launched so far
    envWrites     \* writes to os.environ so far

vars == << example, runAsMain, environ, dotenv, pc, failedAt, flagSeen,
           flagReads, is_fast_api, flagAtBuild, graph, builds, app, agent,
           routes, portSeen, server, prev, runs, envWrites >>

-----------------------------------------------------------------------------
(* Python strings and the two conversions the code applies to them.        *)

Upper == << "A","B","C","D","E","F","G","H","I","J","K","L","M",
            "N","O","P","Q","R","S","T","U","V","W","X","Y","Z" >>
Lower == << "a","b","c","d","e","f","g","h","i","j","k","l","m",
            "n","o","p","q","r","s","t","u","v","w","x","y","z" >>
Digits == << "0","1","2","3","4","5","6","7","8","9" >>
Whitespace == { " ", "\t", "\n" }

IndexIn(c, alphabet) == CHOOSE i \in 1..Len(alphabet) : alphabet[i] = c
IsIn(c, alphabet) == \E i \in 1..Len(alphabet) : alphabet[i] = c

LowerChar(c) == IF IsIn(c, Upper) THEN Lower[IndexIn(c, Upper)] ELSE c


\* Mutant of StrLower: the call to .lower() left out.
StrLowerOmitted(s) == s

\* str.lower(): every cased character replaced by its lowercase form.
StrLower(s) == [i \in 1..Len(s) |-> LowerChar(s[i])]

\* str.strip() as int() applies it: leading and trailing whitespace removed.
RECURSIVE LStrip(_)
LStrip(s) ==
    IF Len(s) > 0 /\ s[1] \in Whitespace THEN LStrip(Tail(s)) ELSE s

RECURSIVE RStrip(_)
RStrip(s) ==
    IF Len(s) > 0 /\ s[Len(s)] \in Whitespace
    THEN RStrip(SubSeq(s, 1, Len(s) - 1))
    ELSE s

Strip(s) == RStrip(LStrip(s))

\* The digits of an integer literal: digits, single underscores between them.
IsDigitString(b) ==
    /\ Len(b) > 0
    /\ IsIn(b[1], Digits)
    /\ IsIn(b[Len(b)], Digits)
    /\ \A i \in 1..Len(b) : IsIn(b[i], Digits) \/ b[i] = "_"
    /\ \A i \in 1..(Len(b) - 1) : ~(b[i] = "_" /\ b[i + 1] = "_")

RECURSIVE DigitsValue(_)
DigitsValue(b) ==
    IF Len(b) = 0 THEN 0
    ELSE IF b[Len(b)] = "_" THEN DigitsValue(SubSeq(b, 1, Len(b) - 1))
    ELSE 10 * DigitsValue(SubSeq(b, 1, Len(b) - 1))
         + (IndexIn(b[Len(b)], Digits) - 1)

\* int(s) of a str: the value, or ok = FALSE where Python raises ValueError.
PyInt(s) ==
    LET t == Strip(s)
        signed == Len(t) > 0 /\ t[1] \in {"+", "-"}
        body == IF signed THEN Tail(t) ELSE t
        sign == IF signed /\ t[1] = "-" THEN 0 - 1 ELSE 1
    IN  IF IsDigitString(body)
        THEN [ok |-> TRUE, val |-> sign * DigitsValue(body)]
        ELSE [ok |-> FALSE, val |-> 0]

\* os.environ.get(name, default) and os.getenv(name, default).
EnvGet(env, name, default) ==
    IF env[name] = << >> THEN default ELSE env[name][1]

-----------------------------------------------------------------------------
(* The inputs: values of the two environment variables, and .env files.    *)

TrueStr == << "t","r","u","e" >>

FlagValues ==
    { TrueStr,
      << "T","R","U","E" >>,
      << "T","r","u","e" >>,
      << "f","a","l","s","e" >>,
      << "1" >>,
      << "y","e","s" >>,
      << >>,
      << " ","t","r","u","e"," " >> }

PortValues ==
    { << "9","0","0","1" >>,
      << " ","8","0" >>,
      << "a","b","c" >>,
      << >> }

Unset == << >>

Options(S) == { Unset } \cup { << v >> : v \in S }

Environs == [ PORT : Options(PortValues), LANGGRAPH_FAST_API : Options(FlagValues) ]

\* A .env file: absent or empty, one that turns the flag off, one that sets the port.
DotenvFiles ==
    { [ PORT |-> Unset, LANGGRAPH_FAST_API |-> Unset ],
      [ PORT |-> Unset, LANGGRAPH_FAST_API |-> << << "f","a","l","s","e" >> >> ],
      [ PORT |-> << << "9","0","0","1" >> >>, LANGGRAPH_FAST_API |-> Unset ] }

Examples == { "langgraph", "deepagents", "adk" }

-----------------------------------------------------------------------------
(* python/agent.py                                                         *)

\* Mutant of IsFastApi: the default of the lookup is "false".
IsFastApiDefaultFalse(found) ==
    StrLower(IF found = Unset THEN << "f","a","l","s","e" >> ELSE found[1]) = TrueStr

\* agent.py:14, the right-hand side: the flag as found, defaulted, lowered, compared.
IsFastApi(found) ==
    StrLower(IF found = Unset THEN TrueStr ELSE found[1]) = TrueStr

\* Mutant of GraphWithMemory: the middleware list is one shared, growing list.
GraphWithMemoryShared ==
    [ model         |-> "openai:gpt-4o",
      tools         |-> << >>,
      middleware    |-> [ i \in 1..runs |-> "CopilotKitMiddleware" ],
      system_prompt |-> "You are a helpful assistant.",
      checkpointer  |-> "MemorySaver",
      state_schema  |-> "CopilotKitState" ]

\* agent.py:21-28, the arguments of create_agent in the branch taken when is_fast_api.
GraphWithMemory ==
    [ model         |-> "openai:gpt-4o",
      tools         |-> << >>,
      middleware    |-> << "CopilotKitMiddleware" >>,
      system_prompt |-> "You are a helpful assistant.",
      checkpointer  |-> "MemorySaver",
      state_schema  |-> "CopilotKitState" ]

\* Mutant of GraphWithoutCheckpointer: the else branch edited apart from the other.
GraphWithoutCheckpointerOtherModel ==
    [ model         |-> "openai:gpt-4o-mini",
      tools         |-> << >>,
      middleware    |-> << "CopilotKitMiddleware" >>,
      system_prompt |-> "You are a helpful assistant.",
      checkpointer  |-> "None",
      state_schema  |-> "CopilotKitState" ]

\* agent.py:31-37, the else branch: no checkpointer argument, create_agent's default None.
GraphWithoutCheckpointer ==
    [ model         |-> "openai:gpt-4o",
      tools         |-> << >>,
      middleware    |-> << "CopilotKitMiddleware" >>,
      system_prompt |-> "You are a helpful assistant.",
      checkpointer  |-> "None",
      state_schema  |-> "CopilotKitState" ]

\* Mutant of DeepGraph: the checkpointer argument left out.
DeepGraphNoCheckpointer ==
    [ model         |-> "openai:gpt-4o",
      tools         |-> << >>,
      middleware    |-> << "CopilotKitMiddleware" >>,
      system_prompt |-> "You are a helpful assistant.",
      checkpointer  |-> "None",
      state_schema  |-> "CopilotKitState" ]

\* langchain_deepagents/agent.py:14-22, the arguments of its one create_agent call.
DeepGraph ==
    [ model         |-> "openai:gpt-4o",
      tools         |-> << >>,
      middleware    |-> << "CopilotKitMiddleware" >>,
      system_prompt |-> "You are a helpful assistant.",
      checkpointer  |-> "MemorySaver",
      state_schema  |-> "CopilotKitState" ]

\* adk.py:31-47, the ADKAgent around the LlmAgent.
AdkAgent ==
    [ name |-> "assistant", model |-> "deepseek/deepseek-chat",
      app_name |-> "agents", user_id |-> "demo_user",
      session_timeout_seconds |-> 3600, use_in_memory_services |-> TRUE ]

-----------------------------------------------------------------------------
(* The process.                                                            *)

FirstStep(ex) == IF ex = "adk" THEN "adk_agent" ELSE "load_dotenv"

\* A fresh interpreter: nothing bound, nothing registered.
Fresh(ex, asMain, env) ==
    /\ example = ex
    /\ runAsMain = asMain
    /\ environ = env
    /\ pc = FirstStep(ex)
    /\ failedAt = "none"
    /\ flagSeen = Unset
    /\ flagReads = 0
    /\ is_fast_api = << >>
    /\ flagAtBuild = Unset
    /\ graph = << >>
    /\ builds = 0
    /\ app = << >>
    /\ agent = << >>
    /\ routes = {}
    /\ portSeen = Unset
    /\ server = << >>

\* Only langchain_deepagents/main.py has a __main__ block.
Launches == { <<ex, m>> \in Examples \X BOOLEAN : m => ex = "deepagents" }

Init ==
    /\ \E l \in Launches, env \in Environs : Fresh(l[1], l[2], env)
    /\ dotenv \in DotenvFiles
    /\ prev = << >>
    /\ runs = 1
    /\ envWrites = 0

\* An uncaught exception at statement `at`: the interpreter exits, nothing else runs.
Raise(at) ==
    /\ pc' = "crashed"
    /\ failedAt' = at

\* main.py:7 load_dotenv(): the file's variables, where the process has none set.
LoadDotenv ==
    /\ pc = "load_dotenv"
    /\ environ' = [ k \in DOMAIN environ |->
                      IF environ[k] = Unset THEN dotenv[k] ELSE environ[k] ]
    /\ pc' = IF example = "langgraph" THEN "read_flag" ELSE "deep_agent"
    /\ UNCHANGED << example, runAsMain, dotenv, failedAt, flagSeen, flagReads,
                    is_fast_api, flagAtBuild, graph, builds, app, agent, routes,
                    portSeen, server, prev, runs, envWrites >>

\* agent.py:14 (run by main.py:11, the import of agent).
ReadFlag ==
    /\ pc = "read_flag"
    /\ flagSeen' = environ.LANGGRAPH_FAST_API
    /\ flagReads' = flagReads + 1
    /\ is_fast_api' = << IsFastApi(environ.LANGGRAPH_FAST_API) >>
    /\ pc' = "create_agent"
    /\ UNCHANGED << example, runAsMain, environ, dotenv, failedAt, flagAtBuild,
                    graph, builds, app, agent, routes, portSeen, server, prev,
                    runs, envWrites >>

\* Mutant of CreateAgent: both branches pass the checkpointer.
CreateAgentAlwaysMemory ==
    /\ pc = "create_agent"
    /\ builds' = builds + 1
    /\ flagAtBuild' = environ.LANGGRAPH_FAST_API
    /\ \E ok \in BOOLEAN :
         IF ok
         THEN /\ graph' = << GraphWithMemory >>
              /\ pc' = "create_app"
              /\ UNCHANGED failedAt
         ELSE /\ Raise("create_agent")
              /\ UNCHANGED graph
    /\ UNCHANGED << example, runAsMain, environ, dotenv, flagSeen, flagReads,
                    is_fast_api, app, agent, routes, portSeen, server, prev,
                    runs, envWrites >>

\* Mutant of CreateAgent: a failed create_agent is caught and tried again.
CreateAgentRetries ==
    /\ pc = "create_agent"
    /\ builds' = builds + 1
    /\ flagAtBuild' = environ.LANGGRAPH_FAST_API
    /\ \E ok \in BOOLEAN :
         IF ok
         THEN /\ graph' = << IF is_fast_api[1] THEN GraphWithMemory
                                               ELSE GraphWithoutCheckpointer >>
              /\ pc' = "create_app"
         ELSE /\ pc' = "create_agent"
              /\ UNCHANGED graph
    /\ UNCHANGED << example, runAsMain, environ, dotenv, failedAt, flagSeen,
                    flagReads, is_fast_api, app, agent, routes, portSeen, server,
                    prev, runs, envWrites >>

\* agent.py:17-37: one create_agent call, which returns the graph or raises.
CreateAgent ==
    /\ pc = "create_agent"
    /\ builds' = builds + 1
    /\ flagAtBuild' = environ.LANGGRAPH_FAST_API
    /\ \E ok \in BOOLEAN :
         IF ok
         THEN /\ graph' = << IF is_fast_api[1] THEN GraphWithMemory
                                               ELSE GraphWithoutCheckpointer >>
              /\ pc' = "create_app"
              /\ UNCHANGED failedAt
         ELSE /\ Raise("create_agent")
              /\ UNCHANGED graph
    /\ UNCHANGED << example, runAsMain, environ, dotenv, flagSeen, flagReads,
                    is_fast_api, app, agent, routes, portSeen, server, prev,
                    runs, envWrites >>

\* langchain_deepagents/agent.py:14-22 (run by its main.py:11).
CreateDeepAgent ==
    /\ pc = "deep_agent"
    /\ builds' = builds + 1
    /\ flagAtBuild' = environ.LANGGRAPH_FAST_API
    /\ \E ok \in BOOLEAN :
         IF ok
         THEN /\ graph' = << DeepGraph >>
              /\ pc' = "create_app"
              /\ UNCHANGED failedAt
         ELSE /\ Raise("create_agent")
              /\ UNCHANGED graph
    /\ UNCHANGED << example, runAsMain, environ, dotenv, flagSeen, flagReads,
                    is_fast_api, app, agent, routes, portSeen, server, prev,
                    runs, envWrites >>

\* adk.py:17-47: LiteLlm, logging, LlmAgent, ADKAgent; any of them may raise.
CreateAdkAgent ==
    /\ pc = "adk_agent"
    /\ builds' = builds + 1
    /\ \E ok \in BOOLEAN :
         IF ok
         THEN /\ agent' = << AdkAgent >>
              /\ pc' = "create_app"
              /\ UNCHANGED failedAt
         ELSE /\ Raise("create_agent")
              /\ UNCHANGED agent
    /\ UNCHANGED << example, runAsMain, environ, dotenv, flagSeen, flagReads,
                    is_fast_api, flagAtBuild, graph, app, routes, portSeen,
                    server, prev, runs, envWrites >>

\* main.py:15-23 and langchain_deepagents/main.py:15-23: FastAPI() and the CORS
\* middleware; adk.py:50: FastAPI() alone.
CreateApp ==
    /\ pc = "create_app"
    /\ app' = IF example = "adk"
              THEN << [ title |-> "ADK Middleware Basic Chat", middleware |-> << >> ] >>
              ELSE << [ title |-> "LangGraph Dojo Example Server",
                        middleware |-> << "CORSMiddleware" >> ] >>
    /\ pc' = IF example = "adk" THEN "add_endpoint" ELSE "wrap_agent"
    /\ UNCHANGED << example, runAsMain, environ, dotenv, failedAt, flagSeen,
                    flagReads, is_fast_api, flagAtBuild, graph, builds, agent,
                    routes, portSeen, server, prev, runs, envWrites >>

\* Mutant of WrapAgent: the flag is looked up again and the graph rebuilt from it.
WrapAgentReevaluates ==
    /\ pc = "wrap_agent"
    /\ flagReads' = flagReads + 1
    /\ is_fast_api' = << IsFastApi(environ.LANGGRAPH_FAST_API) >>
    /\ graph' = << IF IsFastApi(environ.LANGGRAPH_FAST_API)
                   THEN GraphWithMemory ELSE GraphWithoutCheckpointer >>
    /\ agent' = << [ name  |-> IF example = "langgraph" THEN "mcpAssistant"
                                                        ELSE "agentic_chat",
                     graph |-> graph'[1] ] >>
    /\ pc' = "add_endpoint"
    /\ UNCHANGED << example, runAsMain, environ, dotenv, failedAt, flagSeen,
                    flagAtBuild, builds, app, routes, portSeen, server, prev,
                    runs, envWrites >>

\* main.py:25-29 (langgraph_agent) and langchain_deepagents/main.py:25-32 (agents):
\* LangGraphAGUIAgent around the imported graph, which returns or raises.
WrapAgent ==
    /\ pc = "wrap_agent"
    /\ \E ok \in BOOLEAN :
         IF ok
         THEN /\ agent' = << [ name  |-> IF example = "langgraph" THEN "mcpAssistant"
                                                                  ELSE "agentic_chat",
                               graph |-> graph[1] ] >>
              /\ pc' = "add_endpoint"
              /\ UNCHANGED failedAt
         ELSE /\ Raise("wrap_agent")
              /\ UNCHANGED agent
    /\ UNCHANGED << example, runAsMain, environ, dotenv, flagSeen, flagReads,
                    is_fast_api, flagAtBuild, graph, builds, app, routes,
                    portSeen, server, prev, runs, envWrites >>

\* Mutant of EndpointPath: every example registers "/agent".
EndpointPathSame(ex) == "/agent"

\* The path argument: main.py:33, langchain_deepagents/main.py:35, adk.py:53.
EndpointPath(ex) == IF ex = "deepagents" THEN "./agent" ELSE "/agent"

\* add_langgraph_fastapi_endpoint (main.py:32-34, langchain_deepagents/main.py:34-36)
\* and add_adk_fastapi_endpoint (adk.py:53): one route for the agent on app.  It is
\* the module's last statement; only a script run of langchain_deepagents/main.py
\* goes on, to main() (lines 43-44).
AddEndpoint ==
    /\ pc = "add_endpoint"
    /\ routes' = routes \cup { [ path |-> EndpointPath(example), agent |-> agent[1].name ] }
    /\ pc' = IF runAsMain THEN "main" ELSE "loaded"
    /\ UNCHANGED << example, runAsMain, environ, dotenv, failedAt, flagSeen,
                    flagReads, is_fast_api, flagAtBuild, graph, builds, app,
                    agent, portSeen, server, prev, runs, envWrites >>

\* Mutant of MainPort: a value int() rejects falls back to the default.
MainPortLenient(env) ==
    LET r == PyInt(EnvGet(env, "PORT", << "8","0","0","0" >>))
    IN  IF r.ok THEN r ELSE [ok |-> TRUE, val |-> 8000]

\* langchain_deepagents/main.py:40: int(os.getenv("PORT", "8000")).
MainPort(env) == PyInt(EnvGet(env, "PORT", << "8","0","0","0" >>))

\* langchain_deepagents/main.py:38-41 main(): the port, then uvicorn.run, which serves
\* until the process ends.  int() raising ValueError ends the process before it.
Main ==
    /\ pc = "main"
    /\ portSeen' = environ.PORT
    /\ IF MainPort(environ).ok
       THEN /\ server' = << [ app |-> "main:app", host |-> "0.0.0.0",
                              port |-> MainPort(environ).val, reload |-> TRUE ] >>
            /\ pc' = "serving"
            /\ UNCHANGED failedAt
       ELSE /\ Raise("main")
            /\ UNCHANGED server
    /\ UNCHANGED << example, runAsMain, environ, dotenv, flagSeen, flagReads,
                    is_fast_api, flagAtBuild, graph, builds, app, agent, routes,
                    prev, runs, envWrites >>

\* The host of the process writes os.environ (os.environ[k] = v, del os.environ[k])
\* at any moment of the process's life.
SetEnv ==
    /\ envWrites < MaxEnvWrites
    /\ \E e \in Environs :
         /\ e # environ
         /\ e.PORT = environ.PORT \/ e.LANGGRAPH_FAST_API = environ.LANGGRAPH_FAST_API
         /\ environ' = e
    /\ envWrites' = envWrites + 1
    /\ UNCHANGED << example, runAsMain, dotenv, pc, failedAt, flagSeen, flagReads,
                    is_fast_api, flagAtBuild, graph, builds, app, agent, routes,
                    portSeen, server, prev, runs >>

Ended == pc \in { "loaded", "serving", "crashed" }

\* The process is over and another is launched from the same host, whose
\* environment it inherits as it stands.
Restart ==
    /\ Ended
    /\ runs < MaxRuns
    /\ runs' = runs + 1
    /\ prev' = << [ example |-> example, flagSeen |-> flagSeen, graph |-> graph ] >>
    /\ \E l \in Launches :
         /\ example' = l[1]
         /\ runAsMain' = l[2]
         /\ pc' = FirstStep(l[1])
    /\ failedAt' = "none"
    /\ flagSeen' = Unset
    /\ flagReads' = 0
    /\ is_fast_api' = << >>
    /\ flagAtBuild' = Unset
    /\ graph' = << >>
    /\ builds' = 0
    /\ app' = << >>
    /\ agent' = << >>
    /\ routes' = {}
    /\ portSeen' = Unset
    /\ server' = << >>
    /\ UNCHANGED << environ, dotenv, envWrites >>

Next ==
    \/ LoadDotenv
    \/ ReadFlag
    \/ CreateAgent
    \/ CreateDeepAgent
    \/ CreateAdkAgent
    \/ CreateApp
    \/ WrapAgent
    \/ AddEndpoint
    \/ Main
    \/ SetEnv
    \/ Restart

Spec == Init /\ [][Next]_vars

-----------------------------------------------------------------------------
(* Properties.                                                             *)

FalseStr == << "f","a","l","s","e" >>

Built == graph # << >>

\* C1: in the langgraph example, when the lookup of LANGGRAPH_FAST_API found
\* "true" or found the variable unset, the graph is constructed with a
\* checkpointer (the MemorySaver), and that graph is the one handed on to the
\* adapter agent.
C1_TrueOrUnsetAttachesCheckpointer ==
    (example = "langgraph" /\ Built /\ flagSeen \in { Unset, << TrueStr >> })
        => /\ graph[1].checkpointer = "MemorySaver"
           /\ agent # << >> => agent[1].graph.checkpointer = "MemorySaver"

C1_Witness ==
    /\ example = "langgraph"
    /\ flagSeen = Unset
    /\ agent # << >>
    /\ agent[1].graph.checkpointer = "MemorySaver"

\* The flag a construction ran under: what agent.py looked up, and for the
\* deepagents example, which looks nothing up, what os.environ held.
FlagAtConstruction == IF example = "langgraph" THEN flagSeen ELSE flagAtBuild

\* C2 as claimed: in every example that constructs the agent graph, a flag of
\* "false" gives a graph without a checkpointer.
C2_Original ==
    (example \in { "langgraph", "deepagents" } /\ Built
         /\ FlagAtConstruction = << FalseStr >>)
        => graph[1].checkpointer = "None"

\* C2 as amended: in the langgraph example (python/agent.py), a lookup of
\* LANGGRAPH_FAST_API that found "false" gives a graph without a checkpointer.
C2_FalseOmitsCheckpointer ==
    (example = "langgraph" /\ Built /\ flagSeen = << FalseStr >>)
        => graph[1].checkpointer = "None"

C2_Witness ==
    /\ example = "langgraph"
    /\ Built
    /\ flagSeen = << FalseStr >>
    /\ graph[1].checkpointer = "None"

\* The module-level code has run to its end (and main(), where there is one,
\* may have run too).
StartupComplete ==
    \/ pc \in { "loaded", "main", "serving" }
    \/ pc = "crashed" /\ failedAt = "main"

\* C3: once an example's start-up sequence is complete, its application has
\* exactly one agent route, at "/agent" (langgraph, adk) or "./agent"
\* (deepagents), in that state and in every later state of the process.
C3_ExactlyOneRoute ==
    StartupComplete =>
        /\ Cardinality(routes) = 1
        /\ \A r \in routes :
             r.path = CASE example = "langgraph"  -> "/agent"
                        [] example = "deepagents" -> "./agent"
                        [] example = "adk"        -> "/agent"

C3_Witness ==
    /\ example = "deepagents"
    /\ pc = "serving"
    /\ routes = { [ path |-> "./agent", agent |-> "agentic_chat" ] }

\* main() has run: it started the server or it raised.
MainRan == pc = "serving" \/ (pc = "crashed" /\ failedAt = "main")

\* C4 as claimed: the server starts on PORT when PORT is a valid integer, and
\* on 8000 for every other state of PORT, a non-integer string included.
C4_Original ==
    MainRan =>
        /\ server # << >>
        /\ server[1].port = IF portSeen # Unset /\ PyInt(portSeen[1]).ok
                            THEN PyInt(portSeen[1]).val
                            ELSE 8000

\* C4 as amended: main() starts the server on int(PORT) when PORT is set to a
\* string int() accepts and on 8000 when PORT is unset; when PORT is set to any
\* other string, int() raises and no server is started.
C4_PortFromEnvironment ==
    MainRan =>
        /\ portSeen = Unset => server # << >> /\ server[1].port = 8000
        /\ portSeen = << << "9","0","0","1" >> >>
               => server # << >> /\ server[1].port = 9001
        /\ (portSeen # Unset /\ PyInt(portSeen[1]).ok)
               => server # << >> /\ server[1].port = PyInt(portSeen[1]).val
        /\ (portSeen # Unset /\ ~PyInt(portSeen[1]).ok)
               => server = << >> /\ pc = "crashed"
        /\ server # << >> => server[1].host = "0.0.0.0"

C4_Witness ==
    /\ pc = "crashed"
    /\ failedAt = "main"
    /\ portSeen = << << "a","b","c" >> >>
    /\ server = << >>

\* C5: two processes of the same example whose lookups of the flag found the
\* same thing construct graphs with the same model, system prompt and
\* middleware list, and both with or both without a checkpointer.
C5_DeterministicConstruction ==
    (/\ prev # << >>
     /\ prev[1].graph # << >>
     /\ Built
     /\ prev[1].example = example
     /\ prev[1].flagSeen = flagSeen)
        => /\ prev[1].graph[1].model = graph[1].model
           /\ prev[1].graph[1].system_prompt = graph[1].system_prompt
           /\ prev[1].graph[1].middleware = graph[1].middleware
           /\ prev[1].graph[1].checkpointer = graph[1].checkpointer

C5_Witness ==
    /\ prev # << >>
    /\ prev[1].graph # << >>
    /\ Built
    /\ example = "langgraph"
    /\ prev[1].example = "langgraph"
    /\ prev[1].flagSeen = flagSeen
    /\ flagSeen = << FalseStr >>

\* What C6 says of one state of a langgraph process.
C6_State ==
    example = "langgraph" =>
        /\ flagReads <= 1
        /\ builds <= 1
        /\ builds = 1 => flagReads = 1
        /\ Built => builds = 1
        /\ Built => graph[1].checkpointer =
                        (IF is_fast_api[1] THEN "MemorySaver" ELSE "None")

\* C6: in a langgraph process the flag is looked up once, before the one
\* construction of the graph; after that no step of the process, a write to
\* LANGGRAPH_FAST_API included, changes is_fast_api or the graph.
C6_PersistenceModeFixed ==
    [][ /\ C6_State'
        /\ (runs' = runs /\ is_fast_api # << >>) => is_fast_api' = is_fast_api
        /\ (runs' = runs /\ Built) => graph' = graph ]_vars

C6_Witness ==
    /\ example = "langgraph"
    /\ agent # << >>
    /\ graph[1].checkpointer = "MemorySaver"
    /\ flagSeen = << TrueStr >>
    /\ environ.LANGGRAPH_FAST_API = << FalseStr >>

\* The agent object the example serves has been constructed.
AgentConstructed == IF example = "adk" THEN agent # << >> ELSE Built

\* C7: a route is registered, or the server started, only after the agent was
\* constructed; a process whose agent construction raised has stopped with no
\* route and no server; and construction is attempted at most once.
C7_AllOrNothing ==
    /\ (routes # {} \/ server # << >>) => AgentConstructed
    /\ (pc = "crashed" /\ failedAt \in { "create_agent", "wrap_agent" })
           => routes = {} /\ server = << >>
    /\ failedAt = "create_agent" => ~AgentConstructed
    /\ builds <= 1

C7_Witness ==
    /\ example = "langgraph"
    /\ pc = "crashed"
    /\ failedAt = "create_agent"
    /\ builds = 1
    /\ routes = {}

\* C8: in the langgraph example, whichever branch constructed the graph, it has
\* the model "openai:gpt-4o", no tools, exactly one middleware, the system
\* prompt "You are a helpful assistant." and the state schema CopilotKitState.
C8_BranchesDifferOnlyInCheckpointer ==
    (example = "langgraph" /\ Built)
        => /\ graph[1].model = "openai:gpt-4o"
           /\ graph[1].tools = << >>
           /\ Len(graph[1].middleware) = 1
           /\ graph[1].system_prompt = "You are a helpful assistant."
           /\ graph[1].state_schema = "CopilotKitState"

C8_Witness ==
    /\ example = "langgraph"
    /\ Built
    /\ graph[1].checkpointer = "None"
    /\ prev # << >>
    /\ prev[1].example = "langgraph"
    /\ prev[1].graph # << >>
    /\ prev[1].graph[1].checkpointer = "MemorySaver"

\* The flag values that attach a checkpointer: unset, and "true" in any case.
Truthy ==
    { Unset, << TrueStr >>, << << "T","R","U","E" >> >>, << << "T","r","u","e" >> >> }

\* C9: in the langgraph example a checkpointer is attached exactly when the
\* lookup found the flag unset or found "true" in any letter case; "false",
\* "1", "yes", the empty string and " true " attach none.
C9_CaseInsensitiveTrueOnly ==
    (example = "langgraph" /\ Built)
        => (graph[1].checkpointer = "MemorySaver" <=> flagSeen \in Truthy)

C9_Witness ==
    /\ example = "langgraph"
    /\ Built
    /\ flagSeen = << << "T","R","U","E" >> >>
    /\ graph[1].checkpointer = "MemorySaver"

\* C10: in the deepagents example the flag is never looked up and the graph is
\* constructed with the MemorySaver whatever LANGGRAPH_FAST_API holds.
C10_DeepAgentsAlwaysCheckpointed ==
    example = "deepagents" =>
        /\ flagReads = 0
        /\ is_fast_api = << >>
        /\ Built => graph[1].checkpointer = "MemorySaver"

C10_Witness ==
    /\ example = "deepagents"
    /\ Built
    /\ flagAtBuild = << FalseStr >>
    /\ graph[1].checkpointer = "MemorySaver"

=============================================================================
